---- MODULE Spec2Model ----
(***************************************************************************)
(* googlemaps/common.py: the Context object (credentials and timeouts),    *)
(* the URL signer Context._auth_url and the retrying HTTP GET _get.        *)
(*                                                                         *)
(* Python values are tagged records (None, str, int, tuple); a str is a    *)
(* sequence of one-character strings.  Time is counted in ticks, with      *)
(* TicksPerSecond ticks to the second.                                     *)
(***************************************************************************)
EXTENDS Integers, Sequences, FiniteSets, TLC

VARIABLES
    env,                 \* the runtime: Python major version, requests.__version__
    ctor,                \* the arguments of Context.__init__ and what it raised
    ctx,                 \* the constructed Context (self), or NoContext
    now,                 \* datetime.now(), in ticks
    calls,               \* the logical calls of _get that run against ctx
    pc,                  \* per call: "idle", "sleep", "get", "done"
    first_request_time,  \* per call: _get's first_request_time
    retry_counter,       \* per call: _get's retry_counter
    params,              \* per call: the caller's params dict
    resp,                \* per call: the response of the latest requests.get
    req,                 \* per call: the latest request handed to requests.get
    outcome,             \* per call: what the logical call returned or raised
    gets,                \* per call: number of requests.get calls issued
    sleeps,              \* per call: number of time.sleep calls made
    slept,               \* per call: argument of the latest time.sleep, in seconds
    causes,              \* per call: what has triggered a retry so far
    signed               \* what the direct calls of ctx._auth_url returned

vars == <<env, ctor, ctx, now, calls, pc, first_request_time, retry_counter,
          params, resp, req, outcome, gets, sleeps, slept,
          causes, signed>>

callvars == <<now, pc, first_request_time, retry_counter, params, resp, req,
              outcome, gets, sleeps, slept, causes>>

-----------------------------------------------------------------------------
(* Bounds of the model *)

TicksPerSecond == 4      \* clock ticks to the second
MaxGetTicks == 2         \* a requests.get takes 0..MaxGetTicks ticks
MaxOversleep == 1        \* time.sleep overshoots by 0..MaxOversleep ticks
JitterSteps == 2         \* random.random() is drawn from {k / JitterSteps}
StartTime == 3           \* the clock when the model starts
MaxRetrySeconds == 2     \* retry_timeout is drawn from 0..MaxRetrySeconds
MaxSigns == 2            \* direct calls of _auth_url on one params dict

Calls == {1, 2}

-----------------------------------------------------------------------------
(* Python values *)

PyNone == [t |-> "None"]
PyStr(s) == [t |-> "str", s |-> s]
PyInt(n) == [t |-> "int", n |-> n]
PyTuple(a, b) == [t |-> "tuple", a |-> a, b |-> b]
datetime(ticks) == [t |-> "datetime", ticks |-> ticks]

\* bool(v) as an "if v" / "not v" / "v and w" test evaluates it
Truthy(v) ==
    CASE v.t = "None" -> FALSE
      [] v.t = "str" -> Len(v.s) > 0
      [] v.t = "int" -> v.n # 0
      [] v.t = "tuple" -> TRUE
      [] v.t = "datetime" -> TRUE

\* str.startswith
startswith(s, prefix) ==
    /\ Len(s) >= Len(prefix)
    /\ SubSeq(s, 1, Len(prefix)) = prefix

AIza == <<"A", "I", "z", "a">>

\* timedelta(seconds=n), in ticks
timedelta(seconds) == seconds * TicksPerSecond

-----------------------------------------------------------------------------
(* Context.__init__ *)

\* chunks[0] < 2 and chunks[1] < 4 compare a str with an int: Python 3 raises
\* TypeError; Python 2 orders every int before every str, so the test is False.
StrLessThanInt(py, chunk, n) == IF py = 3 THEN "TypeError" ELSE "False"

\* chunks[0] == 2 compares a str with an int: False on both runtimes.
StrEqualsInt(chunk, n) == FALSE

\* Lines 98-101: the check of requests.__version__ ("ok" when it passes).
VersionCheck(e) ==
    LET chunks == e.requests_version
        lt0 == StrLessThanInt(e.py, chunks[1], 2)
        lt1 == StrLessThanInt(e.py, chunks[2], 4)
    IN  IF lt0 = "TypeError" THEN "TypeError"
        ELSE IF lt0 = "True" THEN "NotImplementedError"
        ELSE IF ~StrEqualsInt(chunks[1], 2) THEN "ok"
        ELSE IF lt1 = "TypeError" THEN "TypeError"
        ELSE IF lt1 = "True" THEN "NotImplementedError"
        ELSE "ok"

NoContext == [constructed |-> FALSE]

Raise(exc) == [raised |-> exc, self |-> NoContext]

\* self.timeout as lines 96-104 set it
TimeoutField(timeout, connect_timeout, read_timeout) ==
    IF Truthy(connect_timeout) /\ Truthy(read_timeout)
    THEN PyTuple(connect_timeout, read_timeout)
    ELSE timeout

\* A credentials test satisfied by either half of the enterprise pair
MissingCredentials_either(key, client_id, client_secret) ==
    ~Truthy(key) /\ ~(Truthy(client_secret) \/ Truthy(client_id))

\* The test of line 83
MissingCredentials(key, client_id, client_secret) ==
    ~Truthy(key) /\ ~(Truthy(client_secret) /\ Truthy(client_id))

\* The test of line 87
InvalidKey(key) == Truthy(key) /\ ~startswith(key.s, AIza)

\* A timeout test that needs the whole connect/read pair
ConflictingTimeouts_pair(timeout, connect_timeout, read_timeout) ==
    Truthy(timeout) /\ (Truthy(connect_timeout) /\ Truthy(read_timeout))

\* The test of line 92
ConflictingTimeouts(timeout, connect_timeout, read_timeout) ==
    Truthy(timeout) /\ (Truthy(connect_timeout) \/ Truthy(read_timeout))

\* Context.__init__(key, client_id, client_secret, timeout, connect_timeout,
\* read_timeout, retry_timeout) on runtime e: the exception it raises ("none"
\* when it returns) and the object it leaves.
Context__init__(a, e) ==
    IF MissingCredentials(a.key, a.client_id, a.client_secret)
    THEN Raise("ValueError")
    ELSE IF InvalidKey(a.key)
    THEN Raise("ValueError")
    ELSE IF ConflictingTimeouts(a.timeout, a.connect_timeout, a.read_timeout)
    THEN Raise("ValueError")
    ELSE IF Truthy(a.connect_timeout) /\ Truthy(a.read_timeout)
            /\ VersionCheck(e) # "ok"
    THEN Raise(VersionCheck(e))
    ELSE [raised |-> "none",
          self |-> [constructed |-> TRUE,
                    key |-> a.key,
                    timeout |-> TimeoutField(a.timeout, a.connect_timeout,
                                             a.read_timeout),
                    client_id |-> a.client_id,
                    client_secret |-> a.client_secret,
                    retry_timeout |-> timedelta(a.retry_timeout)]]

-----------------------------------------------------------------------------
(* dict, urlencode, Context._auth_url, _hmac_sign *)

\* A dict is the sequence of its items <<key, value>> in insertion order.
RECURSIVE DictIndex(_, _, _)
DictIndex(d, k, i) ==
    IF i > Len(d) THEN 0
    ELSE IF d[i][1] = k THEN i
    ELSE DictIndex(d, k, i + 1)

\* An assignment that adds an entry even when the key is already present
DictSet_append(d, k, v) == Append(d, <<k, v>>)

\* d[k] = v
DictSet(d, k, v) ==
    LET i == DictIndex(d, k, 1)
    IN  IF i = 0 THEN Append(d, <<k, v>>)
        ELSE [d EXCEPT ![i] = <<k, v>>]

\* quote_plus of one character
QuoteChar(c) ==
    CASE c = " " -> <<"+">>
      [] c = "&" -> <<"%", "2", "6">>
      [] c = "=" -> <<"%", "3", "D">>
      [] c = "/" -> <<"%", "2", "F">>
      [] OTHER -> <<c>>

RECURSIVE quote_plus(_)
quote_plus(s) ==
    IF s = <<>> THEN <<>>
    ELSE QuoteChar(Head(s)) \o quote_plus(Tail(s))

\* urlencode(d): k1=v1&k2=v2..., keys and values quoted
RECURSIVE urlencode(_)
urlencode(d) ==
    IF d = <<>> THEN <<>>
    ELSE LET item == quote_plus(d[1][1]) \o <<"=">> \o quote_plus(d[1][2])
         IN  IF Len(d) = 1 THEN item
             ELSE item \o <<"&">> \o urlencode(Tail(d))

\* A signer that takes its two arguments the other way round
_hmac_sign_swapped(secret, s) == [hmac_sha1_key |-> s, message |-> secret]

\* _hmac_sign(secret, s): the base64url text of HMAC-SHA1(b64decode(secret), s),
\* kept as the term it is computed from.
_hmac_sign(secret, s) == [hmac_sha1_key |-> secret, message |-> s]

NoSignature == [hmac_sha1_key |-> <<>>, message |-> <<>>]

\* The test of line 119
KeyMode(self) == Truthy(self.key)

\* The test of line 123, reached only when line 119 failed
EnterpriseMode(self) ==
    ~KeyMode(self) /\ Truthy(self.client_id) /\ Truthy(self.client_secret)

\* self._auth_url(path, params): the params dict as the call leaves it and the
\* string returned, text followed by "&signature=" + signature when signed is
\* TRUE; returned is FALSE when the method falls off its end (returns None).
_auth_url(self, path, d) ==
    IF KeyMode(self)
    THEN LET d1 == DictSet(d, <<"k", "e", "y">>, self.key.s)
         IN  [params |-> d1, returned |-> TRUE, signed |-> FALSE,
              text |-> path \o <<"?">> \o urlencode(d1),
              signature |-> NoSignature]
    ELSE IF EnterpriseMode(self)
    THEN LET d1 == DictSet(d, <<"c", "l", "i", "e", "n", "t">>, self.client_id.s)
             path1 == path \o <<"?">> \o urlencode(d1)
         IN  [params |-> d1, returned |-> TRUE, signed |-> TRUE,
              text |-> path1,
              signature |-> _hmac_sign(self.client_secret.s, path1)]
    ELSE [params |-> d, returned |-> FALSE, signed |-> FALSE,
          text |-> <<>>, signature |-> NoSignature]

-----------------------------------------------------------------------------
(* requests.get and its responses *)

\* Response bodies: text that is no JSON, or a JSON object (a record).
NotJson == [json |-> FALSE]
Json(obj) == [json |-> TRUE, obj |-> obj]

bad_param == <<"b", "a", "d">>
quota == <<"q">>

Bodies ==
    { NotJson,
      Json([status |-> "OK", results |-> "r"]),
      Json([status |-> "ZERO_RESULTS", results |-> "none"]),
      Json([status |-> "OVER_QUERY_LIMIT"]),
      Json([status |-> "OVER_QUERY_LIMIT", error_message |-> quota]),
      Json([status |-> "INVALID_REQUEST", error_message |-> bad_param]),
      Json([status |-> "REQUEST_DENIED"]),
      Json([results |-> "r"]) }

\* What a server can answer: 200 with every body, 202, 404 and 503 with an error
\* page, a result or a quota body, 500 and 504 with an error page.
Responses ==
    [status_code : {200}, body : Bodies]
    \cup [status_code : {202, 404, 503},
          body : {NotJson, Json([status |-> "OK", results |-> "r"]),
                  Json([status |-> "OVER_QUERY_LIMIT"])}]
    \cup [status_code : {500, 504}, body : {NotJson}]

NoResponse == [status_code |-> 0, body |-> NotJson]

\* What a server that is over its quota answers
QuotaResponses ==
    { r \in Responses :
        /\ r.status_code = 200 /\ r.body.json
        /\ "status" \in DOMAIN r.body.obj
        /\ r.body.obj.status = "OVER_QUERY_LIMIT" }

\* Exceptions requests.get raises instead of returning a response
NetworkErrors == {"ConnectionError", "Timeout"}

\* Response.raise_for_status(): raises HTTPError for 4xx and 5xx only
raise_for_status(status_code) == 400 <= status_code /\ status_code < 600

-----------------------------------------------------------------------------
(* _get *)

_USER_AGENT == "GoogleGeoApiClientPython/0.1"

NoOutcome == [kind |-> "none"]
Returned(body) == [kind |-> "return", body |-> body]
Raised(exc, status, message) ==
    [kind |-> "raise", exc |-> exc, status |-> status, message |-> message]

\* ApiError(status, message=None)
ApiError(status, message) == Raised("ApiError", status, message)

\* raise_for_status()'s HTTPError carries the response and so its status code
HTTPError(status_code) == Raised("HTTPError", status_code, PyNone)

\* A budget measured against the clock, not against the elapsed time
exceeded_timeout_abs(t, frt, retry_timeout) == t > retry_timeout

\* The subtraction the wrong way round
exceeded_timeout_swapped(t, frt, retry_timeout) == frt.ticks - t > retry_timeout

\* Line 181: datetime.now() - first_request_time > ctx.retry_timeout
exceeded_timeout(t, frt, retry_timeout) == t - frt.ticks > retry_timeout

\* Line 183: the status codes that are retried
RetryStatus(status_code) == status_code \in {500, 503, 504}

\* A retry that starts the count again
RetryCall_restart(frt, rc) == [first_request_time |-> frt, retry_counter |-> 1]

\* A retry that passes no first_request_time on
RetryCall_reset(frt, rc) == [first_request_time |-> PyNone, retry_counter |-> rc + 1]

\* Lines 185 and 197: the arguments of the recursive call
RetryCall(frt, rc) == [first_request_time |-> frt, retry_counter |-> rc + 1]

Retry == [kind |-> "retry"]

\* Which of the two retry branches a retried response r took: line 183 is
\* tested before the body is read at line 190
RetryCause(r) == IF RetryStatus(r.status_code) THEN "status" ELSE "quota"

\* A retry loop that never looks at the budget
MayRetry_always(rc, exceeded) == TRUE

\* A retry loop that also gives up after a fixed number of retries
MayRetry_capped(rc, exceeded) == ~exceeded /\ rc < 2

\* Lines 183 and 195: "and not exceeded_timeout", in the frame with counter rc
MayRetry(rc, exceeded) == ~exceeded

\* A success test that forgets ZERO_RESULTS
SuccessStatus_ok_only(status) == status = "OK"

\* Line 192: the body statuses that are returned
SuccessStatus(status) == status = "OK" \/ status = "ZERO_RESULTS"

\* A retry of every failing body status
QuotaStatus_any(status) == TRUE

\* A quota test that never matches
QuotaStatus_never(status) == FALSE

\* Line 195: the body status that is retried
QuotaStatus(status) == status = "OVER_QUERY_LIMIT"

\* Lines 199-202: the ApiError raised for a body
ApiErrorOf(body) ==
    IF "error_message" \in DOMAIN body
    THEN ApiError(body.status, PyStr(body.error_message))
    ELSE ApiError(body.status, PyNone)

\* resp.json(): the parsed object, for a body that is JSON
json(r) == r.body.obj

\* Lines 181-202: what the frame with counter rc does with response r,
\* classified at clock t
Classify(r, t, frt, rc, retry_timeout) ==
    LET exceeded == exceeded_timeout(t, frt, retry_timeout)
    IN  IF RetryStatus(r.status_code) /\ MayRetry(rc, exceeded)
        THEN Retry
        ELSE IF r.status_code # 200 /\ raise_for_status(r.status_code)
        THEN HTTPError(r.status_code)
        ELSE IF ~r.body.json
        THEN Raised("ValueError", "", PyNone)
        ELSE LET body == json(r)
             IN  IF "status" \notin DOMAIN body
                 THEN Raised("KeyError", "", PyNone)
                 ELSE IF SuccessStatus(body.status)
                 THEN Returned(body)
                 ELSE IF QuotaStatus(body.status) /\ MayRetry(rc, exceeded)
                 THEN Retry
                 ELSE ApiErrorOf(body)

\* Lines 163-164: first_request_time once the frame is entered at clock t
EnterTime(frt, t) == IF ~Truthy(frt) THEN datetime(t) ELSE frt

\* Line 166: where the frame goes next
EnterPc(rc) == IF rc > 0 THEN "sleep" ELSE "get"

RECURSIVE Pow(_, _)
Pow(b, e) == IF e = 0 THEN 1 ELSE b * Pow(b, e - 1)

\* The delay with the exponent retry_counter in place of retry_counter - 1
delay_seconds_next(rc) == [num |-> Pow(3, rc), den |-> 2 * Pow(2, rc)]

\* Line 170: delay_seconds = 0.5 * 1.5 ** (retry_counter - 1), as a fraction
delay_seconds(rc) == [num |-> Pow(3, rc - 1), den |-> 2 * Pow(2, rc - 1)]

\* Line 173: delay_seconds * (random.random() + 0.5) for random() = k/JitterSteps
SleepSeconds(rc, k) ==
    [num |-> delay_seconds(rc).num * (2 * k + JitterSteps),
     den |-> delay_seconds(rc).den * 2 * JitterSteps]

\* The least number of ticks that is not less than the fraction q of seconds
CeilTicks(q) == ((q.num * TicksPerSecond) + q.den - 1) \div q.den

NoSleep == [num |-> 0, den |-> 1]

Path(c) == <<"/", "g">>

Host == <<"h">>

-----------------------------------------------------------------------------
(* Inputs *)

DefaultRetryTimeout == 60

AIzaK == PyStr(AIza \o <<"K">>)

Keys ==
    { PyNone, PyStr(<<>>), AIzaK, PyStr(<<"A", "I", "z">>),
      PyStr(<<"x", "A", "I", "z", "a">>) }
ClientIds == { PyNone, PyStr(<<"c">>) }
ClientSecrets == { PyNone, PyStr(<<"c", "2", "U", "=">>) }
Timeouts == { PyNone, PyInt(0), PyInt(5) }
ConnectTimeouts == { PyNone, PyInt(0), PyInt(2) }
ReadTimeouts == { PyNone, PyInt(3) }
RetrySeconds == 0..MaxRetrySeconds

Envs == [py : {2, 3}, requests_version : {<<"2", "3", "0">>, <<"2", "4", "1">>}]

CtorArgs ==
    [key : Keys, client_id : ClientIds, client_secret : ClientSecrets,
     timeout : Timeouts, connect_timeout : ConnectTimeouts,
     read_timeout : ReadTimeouts,
     retry_timeout : RetrySeconds \cup {DefaultRetryTimeout}]

\* The constructions the calls of _get are run against
GetArgs ==
    { a \in CtorArgs :
        /\ a.key \in {PyNone, AIzaK}
        /\ Truthy(a.client_id) = Truthy(a.client_secret)
        /\ a.timeout = PyInt(5)
        /\ a.connect_timeout = PyNone /\ a.read_timeout = PyNone
        /\ a.retry_timeout \in RetrySeconds }

NotConstructed == [called |-> FALSE]

InitialParams == << <<<<"a">>, <<"x", " ", "y">>>> >>

\* The dicts a caller hands to _auth_url directly: the usual one, one that
\* already holds a "key" entry of the caller's, and an empty one
SignParams ==
    { InitialParams,
      << <<<<"k", "e", "y">>, <<"o">>>>, <<<<"a">>, <<"x", " ", "y">>>> >>,
      <<>> }

CallInit ==
    /\ now = StartTime
    /\ pc = [c \in Calls |-> "idle"]
    /\ first_request_time = [c \in Calls |-> PyNone]
    /\ retry_counter = [c \in Calls |-> 0]
    /\ params = [c \in Calls |-> InitialParams]
    /\ resp = [c \in Calls |-> NoResponse]
    /\ req = [c \in Calls |-> [sent |-> FALSE]]
    /\ outcome = [c \in Calls |-> NoOutcome]
    /\ gets = [c \in Calls |-> 0]
    /\ sleeps = [c \in Calls |-> 0]
    /\ slept = [c \in Calls |-> NoSleep]
    /\ causes = [c \in Calls |-> {}]
    /\ signed = <<>>

-----------------------------------------------------------------------------
(* Construction and direct signing *)

\* Context(**a) on runtime env
Construct(a) ==
    /\ ~ctor.called
    /\ ctor' = [called |-> TRUE, args |-> a, raised |-> Context__init__(a, env).raised]
    /\ ctx' = Context__init__(a, env).self
    /\ UNCHANGED <<env, calls, callvars, signed>>

\* ctx._auth_url(Path(c), params[c]) called by the holder of params[c]
AuthUrl(c) ==
    /\ ctx.constructed
    /\ Len(signed) < MaxSigns
    /\ LET au == _auth_url(ctx, Path(c), params[c])
       IN  /\ params' = [params EXCEPT ![c] = au.params]
           /\ signed' = Append(signed, [returned |-> au.returned,
                                        signed |-> au.signed, text |-> au.text,
                                        signature |-> au.signature])
    /\ UNCHANGED <<env, ctor, ctx, calls, now, pc, first_request_time,
                   retry_counter, resp, req, outcome, gets, sleeps, slept,
                   causes>>

InitCtx ==
    /\ env \in Envs
    /\ ctor = NotConstructed
    /\ ctx = NoContext
    /\ calls = {1}
    /\ CallInit

\* The same, with the caller's dict drawn from SignParams
InitSign ==
    /\ env \in Envs
    /\ ctor = NotConstructed
    /\ ctx = NoContext
    /\ calls = {1}
    /\ now = StartTime
    /\ pc = [c \in Calls |-> "idle"]
    /\ first_request_time = [c \in Calls |-> PyNone]
    /\ retry_counter = [c \in Calls |-> 0]
    /\ params \in [Calls -> SignParams]
    /\ params[1] = params[2]
    /\ resp = [c \in Calls |-> NoResponse]
    /\ req = [c \in Calls |-> [sent |-> FALSE]]
    /\ outcome = [c \in Calls |-> NoOutcome]
    /\ gets = [c \in Calls |-> 0]
    /\ sleeps = [c \in Calls |-> 0]
    /\ slept = [c \in Calls |-> NoSleep]
    /\ causes = [c \in Calls |-> {}]
    /\ signed = <<>>

NextCtx == (\E a \in CtorArgs : Construct(a)) \/ AuthUrl(1)

SpecCtx == InitCtx /\ [][NextCtx]_vars

SpecSign == InitSign /\ [][NextCtx]_vars

-----------------------------------------------------------------------------
(* The logical call _get(ctx, Path(c), params[c]) *)

\* The caller's call: the first frame is entered (lines 163-166)
Start(c) ==
    /\ ctx.constructed
    /\ pc[c] = "idle"
    /\ first_request_time' =
           [first_request_time EXCEPT ![c] = EnterTime(PyNone, now)]
    /\ pc' = [pc EXCEPT ![c] = EnterPc(retry_counter[c])]
    /\ UNCHANGED <<env, ctor, ctx, calls, now, retry_counter, params, resp, req,
                   outcome, gets, sleeps, slept, causes, signed>>

\* Lines 170-173: the backoff sleep of a retry
Sleep(c) ==
    /\ pc[c] = "sleep"
    /\ \E k \in 0..(JitterSteps - 1), over \in 0..MaxOversleep :
          LET arg == SleepSeconds(retry_counter[c], k)
          IN  /\ slept' = [slept EXCEPT ![c] = arg]
              /\ now' = now + CeilTicks(arg) + over
    /\ sleeps' = [sleeps EXCEPT ![c] = @ + 1]
    /\ pc' = [pc EXCEPT ![c] = "get"]
    /\ UNCHANGED <<env, ctor, ctx, calls, first_request_time, retry_counter,
                   params, resp, req, outcome, gets, causes, signed>>

\* Lines 175-179: the URL is signed and the GET is sent
Send(c, au) ==
    /\ params' = [params EXCEPT ![c] = au.params]
    /\ req' = [req EXCEPT ![c] =
                  [sent |-> TRUE, url |-> Host \o au.text, signed |-> au.signed,
                   signature |-> au.signature, user_agent |-> _USER_AGENT,
                   timeout |-> ctx.timeout, verify |-> TRUE]]
    /\ gets' = [gets EXCEPT ![c] = @ + 1]

\* An attempt whose retry counter is one module-level variable, written for
\* every call at once
AttemptWith_shared(c, R) ==
    /\ pc[c] = "get"
    /\ Send(c, _auth_url(ctx, Path(c), params[c]))
    /\ \E r \in R, d \in 0..MaxGetTicks :
          LET t == now + d
              result == Classify(r, t, first_request_time[c], retry_counter[c],
                                 ctx.retry_timeout)
          IN  /\ now' = t
              /\ resp' = [resp EXCEPT ![c] = r]
              /\ IF result = Retry
                 THEN /\ retry_counter' =
                            [x \in Calls |-> retry_counter[c] + 1]
                      /\ pc' = [pc EXCEPT ![c] = "sleep"]
                      /\ causes' = [causes EXCEPT ![c] = @ \cup {RetryCause(r)}]
                      /\ UNCHANGED outcome
                 ELSE /\ outcome' = [outcome EXCEPT ![c] = result]
                      /\ pc' = [pc EXCEPT ![c] = "done"]
                      /\ UNCHANGED <<retry_counter, causes>>
    /\ UNCHANGED <<env, ctor, ctx, calls, first_request_time, sleeps, slept,
                   signed>>

\* Lines 175-202 with a GET that returns a response r of R after d ticks, and
\* lines 163-166 of the frame a retry enters
AttemptWith(c, R) ==
    /\ pc[c] = "get"
    /\ _auth_url(ctx, Path(c), params[c]).returned
    /\ Send(c, _auth_url(ctx, Path(c), params[c]))
    /\ \E r \in R, d \in 0..MaxGetTicks :
          LET t == now + d
              result == Classify(r, t, first_request_time[c], retry_counter[c],
                                 ctx.retry_timeout)
              again == RetryCall(first_request_time[c], retry_counter[c])
          IN  /\ now' = t
              /\ resp' = [resp EXCEPT ![c] = r]
              /\ IF result = Retry
                 THEN /\ first_request_time' =
                            [first_request_time EXCEPT ![c] =
                                EnterTime(again.first_request_time, t)]
                      /\ retry_counter' =
                            [retry_counter EXCEPT ![c] = again.retry_counter]
                      /\ pc' = [pc EXCEPT ![c] = EnterPc(again.retry_counter)]
                      /\ causes' = [causes EXCEPT ![c] = @ \cup {RetryCause(r)}]
                      /\ UNCHANGED outcome
                 ELSE /\ outcome' = [outcome EXCEPT ![c] = result]
                      /\ pc' = [pc EXCEPT ![c] = "done"]
                      /\ UNCHANGED <<first_request_time, retry_counter, causes>>
    /\ UNCHANGED <<env, ctor, ctx, calls, sleeps, slept, signed>>

\* An attempt against a server that can answer anything
Attempt(c) == AttemptWith(c, Responses)

\* An attempt against a server that is over its quota
AttemptQuota(c) == AttemptWith(c, QuotaResponses)

\* A client that catches the exception of the GET and tries again
AttemptFails_retry(c) ==
    /\ pc[c] = "get"
    /\ _auth_url(ctx, Path(c), params[c]).returned
    /\ Send(c, _auth_url(ctx, Path(c), params[c]))
    /\ \E d \in 0..MaxGetTicks : now' = now + d
    /\ resp' = [resp EXCEPT ![c] = NoResponse]
    /\ retry_counter' = [retry_counter EXCEPT ![c] = @ + 1]
    /\ pc' = [pc EXCEPT ![c] = "sleep"]
    /\ UNCHANGED <<env, ctor, ctx, calls, first_request_time, outcome,
                   sleeps, slept, causes, signed>>

\* Lines 175-179 with a GET that raises a network-level exception after d ticks
AttemptFails(c) ==
    /\ pc[c] = "get"
    /\ _auth_url(ctx, Path(c), params[c]).returned
    /\ Send(c, _auth_url(ctx, Path(c), params[c]))
    /\ \E e \in NetworkErrors, d \in 0..MaxGetTicks :
          /\ now' = now + d
          /\ outcome' = [outcome EXCEPT ![c] = Raised(e, "", PyNone)]
    /\ resp' = [resp EXCEPT ![c] = NoResponse]
    /\ pc' = [pc EXCEPT ![c] = "done"]
    /\ UNCHANGED <<env, ctor, ctx, calls, first_request_time, retry_counter,
                   sleeps, slept, causes, signed>>

Init ==
    /\ env \in {e \in Envs : e.requests_version = <<"2", "4", "1">>}
    /\ \E a \in GetArgs :
          /\ Context__init__(a, env).raised = "none"
          /\ ctor = [called |-> TRUE, args |-> a, raised |-> "none"]
          /\ ctx = Context__init__(a, env).self
    /\ calls = {1}
    /\ CallInit

Next ==
    \/ \E c \in calls : Start(c)
    \/ \E c \in calls : Sleep(c)
    \/ \E c \in calls : Attempt(c)
    \/ \E c \in calls : AttemptFails(c)

Spec == Init /\ [][Next]_vars

\* Two calls of _get, each with its own params dict, that run against one
\* Context with a budget of one second; their steps interleave freely.
SharedArgs ==
    [key |-> AIzaK, client_id |-> PyNone, client_secret |-> PyNone,
     timeout |-> PyInt(5), connect_timeout |-> PyNone, read_timeout |-> PyNone,
     retry_timeout |-> 1]

\* A server that is unavailable or answers
PairResponses ==
    { r \in Responses :
        \/ r.status_code = 503 /\ r.body = NotJson
        \/ r.status_code = 200 /\ r.body = Json([status |-> "OK", results |-> "r"]) }

AttemptPair(c) == AttemptWith(c, PairResponses)

InitPair ==
    /\ env = [py |-> 3, requests_version |-> <<"2", "4", "1">>]
    /\ ctor = [called |-> TRUE, args |-> SharedArgs, raised |-> "none"]
    /\ ctx = Context__init__(SharedArgs, env).self
    /\ calls = Calls
    /\ CallInit

NextPair ==
    \/ \E c \in calls : Start(c)
    \/ \E c \in calls : Sleep(c)
    \/ \E c \in calls : AttemptPair(c)

SpecPair == InitPair /\ [][NextPair]_vars

\* The calls against a server that answers every GET with HTTP 200 and body
\* status OVER_QUERY_LIMIT.  The caller calls, a sleep returns and a GET
\* returns: the call goes on until it ends.
NextQuota ==
    \/ \E c \in calls : Start(c)
    \/ \E c \in calls : Sleep(c)
    \/ \E c \in calls : AttemptQuota(c)

SpecQuota == Init /\ [][NextQuota]_vars /\ WF_vars(NextQuota)

\* The calls against a server that may go on answering with retryable
\* outcomes of both kinds for ever, or answer, or refuse, and a network that
\* may fail.  The caller calls, a sleep returns and a GET returns or raises.
LiveResponses ==
    { r \in Responses :
        \/ r.status_code \in {404, 503} /\ r.body = NotJson
        \/ /\ r.status_code = 200
           /\ r.body \in {Json([status |-> "OK", results |-> "r"]),
                          Json([status |-> "OVER_QUERY_LIMIT"]),
                          Json([status |-> "REQUEST_DENIED"])} }

AttemptLive(c) == AttemptWith(c, LiveResponses)

\* One call against a Context in key mode, for every budget
InitLive ==
    /\ env = [py |-> 3, requests_version |-> <<"2", "4", "1">>]
    /\ \E a \in GetArgs :
          /\ a.key = AIzaK /\ a.client_id = PyNone
          /\ ctor = [called |-> TRUE, args |-> a, raised |-> "none"]
          /\ ctx = Context__init__(a, env).self
    /\ calls = {1}
    /\ CallInit

NextLive ==
    \/ \E c \in calls : Start(c)
    \/ \E c \in calls : Sleep(c)
    \/ \E c \in calls : AttemptLive(c)
    \/ \E c \in calls : AttemptFails(c)

SpecLive == InitLive /\ [][NextLive]_vars /\ WF_vars(NextLive)

-----------------------------------------------------------------------------
(* Vocabulary of the properties *)

\* Call c issued a GET in this step and the GET returned a response
Answered(c) == gets'[c] = gets[c] + 1 /\ resp'[c] # NoResponse

\* Time from the first attempt's start to the classification of this step
ElapsedAtClassification(c) == now' - first_request_time[c].ticks

\* This step schedules a further attempt of call c
Retried(c) == retry_counter'[c] = retry_counter[c] + 1 /\ pc'[c] = "sleep"

\* This step ends call c
Ended(c) == pc[c] # "done" /\ pc'[c] = "done"

\* Once a call has ended it does nothing more
DoneIsFinal(c) ==
    pc[c] = "done" =>
        /\ pc'[c] = "done" /\ gets'[c] = gets[c] /\ sleeps'[c] = sleeps[c]
        /\ outcome'[c] = outcome[c]

BodyStatusIs(r, S) ==
    r.body.json /\ "status" \in DOMAIN r.body.obj /\ r.body.obj.status \in S

-----------------------------------------------------------------------------
(* Properties of _get *)

\* C1: an attempt answered with HTTP 500, 503 or 504 is followed by a further
\* attempt only if the time elapsed since the first attempt's start is at most
\* ctx.retry_timeout when the response is classified; when the elapsed time is
\* larger the call ends there, raising the HTTP error with that status; and
\* first_request_time, set when the call starts, is never changed by a retry.
C1_RetryBudget ==
    [][\A c \in Calls :
          /\ (Answered(c) /\ resp'[c].status_code \in {500, 503, 504}) =>
                /\ Retried(c) => ElapsedAtClassification(c) <= ctx.retry_timeout
                /\ ElapsedAtClassification(c) > ctx.retry_timeout =>
                      /\ Ended(c)
                      /\ outcome'[c] = HTTPError(resp'[c].status_code)
                /\ Retried(c) \/ Ended(c)
          /\ pc[c] = "idle" /\ pc'[c] # "idle" =>
                first_request_time'[c] = datetime(now)
          /\ pc[c] # "idle" => first_request_time'[c] = first_request_time[c]
          /\ DoneIsFinal(c)]_vars

\* C1 witness: a call that was retried after a 503 and then ended on a 503
\* classified after the budget, raising HTTPError 503
C1_Witness ==
    \E c \in Calls :
        /\ pc[c] = "done" /\ gets[c] >= 3
        /\ resp[c].status_code = 503
        /\ outcome[c] = HTTPError(503)
        /\ now - first_request_time[c].ticks > ctx.retry_timeout

\* C2: an attempt answered with HTTP 200 and body status OVER_QUERY_LIMIT is
\* treated as one answered with 503 at the same moment would be: while the
\* elapsed time is within the budget a retry is scheduled with retry_counter + 1
\* and the same first_request_time; once the classification finds the budget
\* exceeded the call ends by raising ApiError with status OVER_QUERY_LIMIT; and
\* against a server that always answers so, the call eventually ends with that
\* ApiError.
C2_QuotaRetry ==
    /\ [][\A c \in Calls :
            (/\ Answered(c)
             /\ resp'[c].status_code = 200
             /\ BodyStatusIs(resp'[c], {"OVER_QUERY_LIMIT"})) =>
                /\ Retried(c) <=>
                      Classify([status_code |-> 503, body |-> NotJson], now',
                               first_request_time[c], retry_counter[c],
                               ctx.retry_timeout) = Retry
                /\ IF ElapsedAtClassification(c) <= ctx.retry_timeout
                   THEN /\ Retried(c)
                        /\ first_request_time'[c] = first_request_time[c]
                        /\ outcome'[c] = NoOutcome
                   ELSE /\ Ended(c)
                        /\ outcome'[c].kind = "raise"
                        /\ outcome'[c].exc = "ApiError"
                        /\ outcome'[c].status = "OVER_QUERY_LIMIT"]_vars
    /\ <>(\A c \in calls :
            /\ pc[c] = "done"
            /\ outcome[c].kind = "raise"
            /\ outcome[c].exc = "ApiError"
            /\ outcome[c].status = "OVER_QUERY_LIMIT")

\* C2 witness: a call retried at least twice on OVER_QUERY_LIMIT answers that
\* ended with ApiError OVER_QUERY_LIMIT once the budget was exceeded
C2_Witness ==
    \E c \in Calls :
        /\ pc[c] = "done" /\ gets[c] >= 3
        /\ resp[c].status_code = 200
        /\ outcome[c] = ApiError("OVER_QUERY_LIMIT", PyStr(quota))
        /\ now - first_request_time[c].ticks > ctx.retry_timeout

\* C3: every response with a status other than 200 that is not retried ends the
\* call by raising the HTTP error with that status; no body of such a response
\* is parsed, so no call ends on it with a returned body or an ApiError.
C3_Non200IsFatal ==
    \A c \in Calls :
        (pc[c] = "done" /\ resp[c] # NoResponse /\ resp[c].status_code # 200) =>
            outcome[c] = HTTPError(resp[c].status_code)

\* C4: an attempt answered with HTTP 200 and a body status other than OK,
\* ZERO_RESULTS and OVER_QUERY_LIMIT ends the call there, whatever the retry
\* counter and the elapsed time, raising ApiError with the body's status and
\* with the body's error_message, or None when the body has none; an ended call
\* issues no GET and no sleep.
C4_FatalBody ==
    [][\A c \in Calls :
          /\ (/\ Answered(c)
              /\ resp'[c].status_code = 200
              /\ BodyStatusIs(resp'[c], {"INVALID_REQUEST", "REQUEST_DENIED"})) =>
                /\ Ended(c)
                /\ outcome'[c].kind = "raise"
                /\ outcome'[c].exc = "ApiError"
                /\ outcome'[c].status = resp'[c].body.obj.status
                /\ outcome'[c].message =
                      IF "error_message" \in DOMAIN resp'[c].body.obj
                      THEN PyStr(resp'[c].body.obj.error_message)
                      ELSE PyNone
                /\ retry_counter'[c] = retry_counter[c]
          /\ DoneIsFinal(c)]_vars

\* C4 witness: INVALID_REQUEST with a message answered to a retry inside the
\* budget, and raised as ApiError
C4_Witness ==
    \E c \in Calls :
        /\ pc[c] = "done" /\ retry_counter[c] >= 1
        /\ now - first_request_time[c].ticks <= ctx.retry_timeout
        /\ resp[c].status_code = 200
        /\ outcome[c] = ApiError("INVALID_REQUEST", PyStr(bad_param))

\* C5: an attempt answered with HTTP 200 and body status OK or ZERO_RESULTS
\* ends the call by returning the parsed body as it is, at every retry counter
\* and whether or not the budget is exceeded; on the first attempt exactly
\* one GET has been issued and no sleep made.
C5_Success ==
    [][\A c \in Calls :
          (/\ Answered(c)
           /\ resp'[c].status_code = 200
           /\ BodyStatusIs(resp'[c], {"OK", "ZERO_RESULTS"})) =>
                /\ Ended(c)
                /\ outcome'[c].kind = "return"
                /\ outcome'[c].body = resp'[c].body.obj
                /\ retry_counter[c] = 0 => gets'[c] = 1 /\ sleeps'[c] = 0]_vars

\* C5 witness: a ZERO_RESULTS body returned by a retry classified after the
\* budget
C5_Witness ==
    \E c \in Calls :
        /\ pc[c] = "done" /\ retry_counter[c] >= 1
        /\ now - first_request_time[c].ticks > ctx.retry_timeout
        /\ resp[c].status_code = 200
        /\ outcome[c] = Returned([status |-> "ZERO_RESULTS", results |-> "none"])

\* C5 witness on the first attempt: one GET, no sleep, the body returned
C5_FirstAttempt ==
    \E c \in Calls :
        /\ pc[c] = "done" /\ retry_counter[c] = 0
        /\ gets[c] = 1 /\ sleeps[c] = 0
        /\ outcome[c] = Returned([status |-> "OK", results |-> "r"])

\* C6: at every retry counter, an attempt answered with HTTP 500, 503 or 504, or
\* with HTTP 200 and body status OVER_QUERY_LIMIT, and classified within the
\* budget is followed by the attempt with the next counter: a retry is
\* scheduled and its sleep leads to the GET; and a further attempt is scheduled
\* only after an answer of status 500, 503, 504 or of body status
\* OVER_QUERY_LIMIT.
C6_TimeGatedOnly ==
    [][\A c \in Calls :
          /\ (/\ Answered(c)
              /\ \/ resp'[c].status_code \in {500, 503, 504}
                 \/ /\ resp'[c].status_code = 200
                    /\ BodyStatusIs(resp'[c], {"OVER_QUERY_LIMIT"})
              /\ ElapsedAtClassification(c) <= ctx.retry_timeout) =>
                Retried(c)
          /\ sleeps'[c] = sleeps[c] + 1 =>
                pc'[c] = "get" /\ retry_counter'[c] = retry_counter[c]
          /\ retry_counter'[c] # retry_counter[c] =>
                /\ Answered(c) /\ Retried(c)
                /\ \/ resp'[c].status_code \in {500, 503, 504}
                   \/ BodyStatusIs(resp'[c], {"OVER_QUERY_LIMIT"})]_vars

\* C6 witness: a fourth retry scheduled, by an answer classified exactly at the
\* end of the budget
C6_Witness ==
    \E c \in Calls :
        /\ pc[c] = "sleep" /\ retry_counter[c] >= 3
        /\ now - first_request_time[c].ticks = ctx.retry_timeout

\* C7 as claimed: no GET of a call is issued later than ctx.retry_timeout after
\* the first attempt's start.
C7_NoLateAttempt ==
    [][\A c \in Calls :
          gets'[c] = gets[c] + 1 =>
              now - first_request_time[c].ticks <= ctx.retry_timeout]_vars

\* C7 amended: every attempt after the first is scheduled by a classification
\* made no later than ctx.retry_timeout after the first attempt's start, and
\* none is scheduled by a later classification; the backoff sleep that follows
\* is not counted, so the attempt itself may start after the budget.
C7_ScheduledWithinBudget ==
    [][\A c \in Calls :
          /\ pc[c] = "get" /\ pc'[c] = "sleep" =>
                now' - first_request_time'[c].ticks <= ctx.retry_timeout
          /\ pc[c] = "get" /\ now' - first_request_time[c].ticks > ctx.retry_timeout =>
                pc'[c] = "done"]_vars

\* C7 witness: a retry, scheduled within the budget, whose GET is about to be
\* issued after the budget has passed
C7_Witness ==
    \E c \in Calls :
        /\ pc[c] = "get" /\ retry_counter[c] >= 1
        /\ now - first_request_time[c].ticks > ctx.retry_timeout

-----------------------------------------------------------------------------
(* Properties of Context.__init__ *)

\* An argument passed with a value: not None, not the empty string, not zero
Supplied(v) == v # PyNone /\ v # PyStr(<<>>) /\ v # PyInt(0)

HasPrefix(k) ==
    /\ k.t = "str" /\ Len(k.s) >= Len(AIza)
    /\ \A i \in 1..Len(AIza) : k.s[i] = AIza[i]

KeySet == Supplied(ctx.key)
EnterpriseSet == Supplied(ctx.client_id) /\ Supplied(ctx.client_secret)

\* C8 as claimed: a constructed Context has the key set or the enterprise pair
\* set, and never both.
C8_ExactlyOneMode ==
    ctx.constructed => (KeySet /\ ~EnterpriseSet) \/ (EnterpriseSet /\ ~KeySet)

\* C8 amended: a constructed Context has the key set or the enterprise pair set,
\* never neither; both can be set at once, and _auth_url then applies the
\* API-key scheme alone: every URL it returns is signed exactly when no key is
\* set.
C8_AtLeastOneMode ==
    ctx.constructed =>
        /\ KeySet \/ EnterpriseSet
        /\ \A i \in 1..Len(signed) :
              /\ signed[i].returned
              /\ signed[i].signed <=> ~KeySet

\* C8 witness: a Context constructed with key, client_id and client_secret,
\* whose _auth_url returned an unsigned URL
C8_Witness ==
    /\ ctx.constructed /\ KeySet /\ EnterpriseSet
    /\ Len(signed) >= 1 /\ ~signed[1].signed

\* C9: Context.__init__ raises ValueError, leaving no Context and before any GET,
\* whenever no key is supplied and not both client_id and client_secret are; or
\* the key supplied does not start with "AIza"; or timeout is supplied
\* together with connect_timeout or read_timeout -- whatever the other
\* arguments and the runtime.  (Supplied: passed with a value other than None,
\* "" and 0.)
C9_ConfigurationErrors ==
    ctor.called =>
        LET a == ctor.args
        IN  (\/ ~Supplied(a.key)
                /\ ~(Supplied(a.client_id) /\ Supplied(a.client_secret))
             \/ Supplied(a.key) /\ ~HasPrefix(a.key)
             \/ Supplied(a.timeout)
                /\ (Supplied(a.connect_timeout) \/ Supplied(a.read_timeout)))
            => /\ ctor.raised = "ValueError"
               /\ ~ctx.constructed
               /\ \A c \in Calls : gets[c] = 0

\* C9 witness: a valid key, with timeout and connect_timeout alone, rejected
C9_Witness ==
    /\ ctor.called /\ ctor.raised = "ValueError"
    /\ ctor.args.key = AIzaK
    /\ Supplied(ctor.args.timeout) /\ Supplied(ctor.args.connect_timeout)
    /\ ~Supplied(ctor.args.read_timeout)

\* Exactly one credential mode: a key with the prefix and no enterprise
\* credentials, or the enterprise pair and no key
OneModeArgs(a) ==
    \/ HasPrefix(a.key) /\ a.client_id = PyNone /\ a.client_secret = PyNone
    \/ a.key = PyNone /\ Supplied(a.client_id) /\ Supplied(a.client_secret)

PairArgs(a) ==
    a.timeout = PyNone /\ Supplied(a.connect_timeout) /\ Supplied(a.read_timeout)

\* A valid timeout choice: none, a single timeout, or the whole pair
ValidTimeoutArgs(a) ==
    \/ a.timeout = PyNone /\ a.connect_timeout = PyNone /\ a.read_timeout = PyNone
    \/ Supplied(a.timeout) /\ a.connect_timeout = PyNone /\ a.read_timeout = PyNone
    \/ PairArgs(a)

\* C10: Context.__init__ succeeds on every input with exactly one credential
\* mode and a valid timeout choice; with the connect/read pair the stored timeout
\* is (connect_timeout, read_timeout).
C10_ValidConstructionSucceeds ==
    ctor.called =>
        LET a == ctor.args
        IN  (OneModeArgs(a) /\ ValidTimeoutArgs(a)) =>
                /\ ctor.raised = "none"
                /\ ctx.constructed
                /\ PairArgs(a) =>
                      ctx.timeout = PyTuple(a.connect_timeout, a.read_timeout)

\* C11: Context.__init__ raises ValueError whenever exactly one of client_id and
\* client_secret is supplied, with or without a key.
C11_EnterprisePairComplete ==
    (/\ ctor.called
     /\ Supplied(ctor.args.client_id) # Supplied(ctor.args.client_secret))
        => (ctor.raised = "ValueError" /\ ~ctx.constructed)

\* A step in which _auth_url was called and returned
Signs == Len(signed') = Len(signed) + 1

\* C12: a call of _auth_url leaves every Context field as it was, and a second
\* call with the same path and the same params dict, as the first call left it,
\* returns the same string as the first.
C12_SigningDeterministic ==
    [][Signs =>
          /\ ctx' = ctx
          /\ Len(signed) >= 1 =>
                 signed'[Len(signed')] = signed[Len(signed)]]_vars

C12_Witness ==
    /\ Len(signed) = 2
    /\ signed[1].returned /\ signed[1].signed
    /\ signed[2] = signed[1]
    /\ DictIndex(params[1], <<"k", "e", "y">>, 1) > 0

\* C13: a call of _auth_url leaves the caller's params dict with exactly the
\* entries it had before the call.
C13_ParamsUntouched == [][Signs => params' = params]_vars

\* The dict d holds the entry k: v
HasEntry(d, k, v) == \E i \in 1..Len(d) : d[i] = <<k, v>>

\* Dict e is dict d after d[k] = v: the entries of d under other keys, in their
\* order, and the entry k: v in the place of d's entry for k, or last
Assigned(d, e, k, v) ==
    /\ HasEntry(e, k, v)
    /\ \A i \in 1..Len(d) : d[i][1] # k => e[i] = d[i]
    /\ Len(e) = Len(d) + (IF \E i \in 1..Len(d) : d[i][1] = k THEN 0 ELSE 1)

\* C14: _auth_url applies exactly one scheme. With a key set the result is
\* path + "?" + urlencode(params with key=<key>) and carries no signature; with
\* only the enterprise pair set it is signedPath + "&signature=" + sig, where
\* signedPath is path + "?" + urlencode(params with client=<client_id>) and sig
\* is the HMAC-SHA1 of exactly signedPath under client_secret. No signed result
\* has a key entry put in by the signer. For the dict {"a": "x y"} the texts are
\* /g?a=x+y&key=AIzaK and /g?a=x+y&client=c.
C14_OneScheme ==
    [][Signs =>
          LET r == signed'[Len(signed')]
              before == params[1]
              after == params'[1]
              key == <<"k", "e", "y">>
              client == <<"c", "l", "i", "e", "n", "t">>
          IN  /\ r.returned
              /\ r.text = Path(1) \o <<"?">> \o urlencode(after)
              /\ KeySet =>
                     /\ ~r.signed /\ r.signature = NoSignature
                     /\ Assigned(before, after, key, ctx.key.s)
                     /\ before = InitialParams =>
                            r.text = <<"/", "g", "?", "a", "=", "x", "+", "y", "&",
                                       "k", "e", "y", "=", "A", "I", "z", "a", "K">>
              /\ ~KeySet =>
                     /\ r.signed
                     /\ r.signature.message = r.text
                     /\ r.signature.hmac_sha1_key = ctx.client_secret.s
                     /\ Assigned(before, after, client, ctx.client_id.s)
                     /\ \A i \in 1..Len(after) :
                            after[i][1] = key => after[i] \in
                                { before[j] : j \in 1..Len(before) }
                     /\ before = InitialParams =>
                            r.text = <<"/", "g", "?", "a", "=", "x", "+", "y", "&",
                                       "c", "l", "i", "e", "n", "t", "=", "c">>]_vars

\* A signed result for a caller's dict that has a "key" entry of its own
C14_Witness ==
    /\ Len(signed) >= 1
    /\ signed[1].signed
    /\ signed[1].signature.message = signed[1].text
    /\ DictIndex(params[1], <<"k", "e", "y">>, 1) > 0

\* The pre-jitter delay before attempt n: 0.5, 0.75, 1.125 seconds for
\* n = 1, 2, 3 and 0.5 * 1.5^(n-1) in general
BackoffDelay(n) ==
    CASE n = 1 -> [num |-> 1, den |-> 2]
      [] n = 2 -> [num |-> 3, den |-> 4]
      [] n = 3 -> [num |-> 9, den |-> 8]
      [] OTHER -> [num |-> Pow(3, n - 1), den |-> Pow(2, n)]

\* Call c sleeps in this step
Sleeps(c) == sleeps'[c] = sleeps[c] + 1

\* Call c issues a GET in this step
Gets(c) == gets'[c] = gets[c] + 1

\* C15: the attempt with retry_counter = 0 is preceded by no sleep and the
\* attempt with retry_counter = n >= 1 by exactly one sleep since the attempt
\* before it; the sleep is taken before the URL is signed and the GET issued,
\* and its duration is delay * (r + 0.5) for delay = 0.5 * 1.5^(n-1) and a
\* jitter r in [0, 1), hence within [0.5 * delay, 1.5 * delay].
C15_BackoffShape ==
    [][\A c \in calls :
          /\ Gets(c) => sleeps[c] = retry_counter[c] /\ gets[c] = retry_counter[c]
          /\ Sleeps(c) =>
                 LET n == retry_counter[c]
                     d == BackoffDelay(n)
                     x == slept'[c]
                 IN  /\ n >= 1 /\ sleeps[c] = n - 1 /\ gets[c] = n
                     /\ gets'[c] = gets[c] /\ params'[c] = params[c]
                     /\ req'[c] = req[c] /\ signed' = signed
                     /\ \E k \in 0..(JitterSteps - 1) :
                            x.num * d.den * 2 * JitterSteps
                                = d.num * (2 * k + JitterSteps) * x.den
                     /\ 2 * x.num * d.den >= d.num * x.den
                     /\ 2 * x.num * d.den <= 3 * d.num * x.den]_vars

\* The third retry has slept the least duration, 0.5 * 1.125 seconds, and its
\* GET has been issued
C15_Witness ==
    \E c \in calls :
        /\ retry_counter[c] = 3 /\ sleeps[c] = 3 /\ gets[c] = 4
        /\ slept[c].num * 16 = 9 * slept[c].den

\* The GET of call c raises in this step
GetRaises(c) == Gets(c) /\ resp'[c] = NoResponse

\* C16: when the GET of an attempt raises a network-level exception the call
\* ends at that attempt with that exception as its outcome, whatever the retry
\* counter and the time elapsed: nothing is retried, and a call that has ended
\* makes no further attempt and takes no further sleep.
C16_NetworkErrorEnds ==
    [][\A c \in calls :
          /\ GetRaises(c) =>
                 /\ Ended(c)
                 /\ outcome'[c].kind = "raise"
                 /\ outcome'[c].exc \in NetworkErrors
                 /\ retry_counter'[c] = retry_counter[c]
                 /\ sleeps'[c] = sleeps[c]
          /\ DoneIsFinal(c)]_vars

\* A retry, well within the budget, whose GET raised
C16_Witness ==
    \E c \in calls :
        /\ pc[c] = "done" /\ resp[c] = NoResponse
        /\ outcome[c].kind = "raise" /\ outcome[c].exc = "Timeout"
        /\ retry_counter[c] >= 1
        /\ ~exceeded_timeout(now, first_request_time[c], ctx.retry_timeout)

\* C18: one retry counter serves both kinds of retry. It is 0 at the first
\* attempt, grows by exactly 1 at every retry, whether a 500/503/504 or an
\* OVER_QUERY_LIMIT body triggered it, and never goes back; so at every attempt
\* it equals the number of attempts made before, and so does the number of
\* backoff sleeps once the attempt's own sleep is taken.
C18_OneCounter ==
    [][\A c \in calls :
          /\ pc[c] = "idle" => retry_counter[c] = 0 /\ gets[c] = 0
          /\ Gets(c) => retry_counter[c] = gets[c]
          /\ (Answered(c) /\ ~Ended(c)) =>
                 /\ Retried(c)
                 /\ \/ RetryStatus(resp'[c].status_code)
                    \/ BodyStatusIs(resp'[c], {"OVER_QUERY_LIMIT"})
                 /\ first_request_time'[c] = first_request_time[c]
          /\ retry_counter'[c] \in {retry_counter[c], retry_counter[c] + 1}
          /\ retry_counter'[c] = gets'[c] - (IF pc'[c] = "done" THEN 1 ELSE 0)]_vars

\* A third attempt, issued after one retry of each kind
C18_Witness ==
    \E c \in calls :
        /\ causes[c] = {"status", "quota"}
        /\ retry_counter[c] = 2 /\ gets[c] = 3 /\ sleeps[c] = 2

\* Everything call c keeps to itself: its RetryState, its params dict, its
\* request and response, and what it returned or raised
Locals(c) ==
    <<pc[c], first_request_time[c], retry_counter[c], params[c], resp[c],
      req[c], outcome[c], gets[c], sleeps[c], slept[c], causes[c]>>

\* C17: in every interleaving of the steps of two calls of _get that share one
\* Context, no step writes a field of the Context; a step of one call leaves
\* everything the other call keeps untouched; and what a call does with a
\* response, retry or end and with which outcome, is what it does alone with
\* that response at that clock reading, so that its attempts stay counted by
\* its own retry counter.
C17_CallsIndependent ==
    [][/\ ctx' = ctx
       /\ \A c \in calls :
              /\ Locals(c)' # Locals(c) =>
                     \A o \in calls \ {c} : Locals(o)' = Locals(o)
              /\ Gets(c) => retry_counter[c] = gets[c] /\ sleeps[c] = gets[c]
              /\ Answered(c) =>
                     LET alone == Classify(resp'[c], now', first_request_time[c],
                                           retry_counter[c], ctx.retry_timeout)
                     IN  IF alone = Retry
                         THEN Retried(c) /\ outcome'[c] = NoOutcome
                         ELSE Ended(c) /\ outcome'[c] = alone]_vars

\* Both calls are in flight at once, at different attempts, and the one the
\* server answered last is the one that started first
C17_Witness ==
    /\ pc[1] = "sleep" /\ retry_counter[1] = 2
    /\ pc[2] = "get" /\ retry_counter[2] = 1
    /\ first_request_time[1].ticks <= first_request_time[2].ticks
    /\ params[1] # InitialParams /\ params[2] # InitialParams

\* C19: every call that has been started ends, returning or raising, whatever
\* the server goes on answering; an attempt classified after the budget has
\* elapsed schedules no retry and ends the call, and a failure the call ends
\* with is the failure of its most recent attempt: the HTTP status or the body
\* status of the latest response.
C19_Terminates ==
    /\ \A c \in Calls :
           (pc[c] \in {"sleep", "get"})
               ~> (pc[c] = "done" /\ outcome[c].kind \in {"return", "raise"})
    /\ [][\A c \in calls :
             /\ (Answered(c) /\ ElapsedAtClassification(c) > ctx.retry_timeout) =>
                    ~Retried(c) /\ Ended(c)
             /\ (Answered(c) /\ Ended(c) /\ outcome'[c].kind = "raise") =>
                    /\ outcome'[c].exc \in {"HTTPError", "ApiError"}
                    /\ outcome'[c].exc = "HTTPError" =>
                           outcome'[c].status = resp'[c].status_code
                    /\ outcome'[c].exc = "ApiError" =>
                           BodyStatusIs(resp'[c], {outcome'[c].status})]_vars

\* A call that was retried for both reasons until the budget ran out and
\* ended with the quota failure of its last attempt
C19_Witness ==
    \E c \in calls :
        /\ pc[c] = "done" /\ causes[c] = {"status", "quota"}
        /\ exceeded_timeout(now, first_request_time[c], ctx.retry_timeout)
        /\ outcome[c] = ApiError("OVER_QUERY_LIMIT", PyNone)
        /\ BodyStatusIs(resp[c], {"OVER_QUERY_LIMIT"})

\* C20: whenever construction succeeds every timeout value that was supplied
\* is in the stored timeout the requests are sent with: timeout as it is,
\* connect_timeout and read_timeout as the two halves of the pair; so a
\* construction given only one of connect_timeout and read_timeout fails.
C20_TimeoutsKept ==
    (ctor.called /\ ctx.constructed) =>
        /\ Supplied(ctor.args.timeout) => ctx.timeout = ctor.args.timeout
        /\ Supplied(ctor.args.connect_timeout) =>
               ctx.timeout.t = "tuple" /\ ctx.timeout.a = ctor.args.connect_timeout
        /\ Supplied(ctor.args.read_timeout) =>
               ctx.timeout.t = "tuple" /\ ctx.timeout.b = ctor.args.read_timeout

====
